---- MODULE Spec2Model ----
(***************************************************************************)
(* A model of mwmbl's URL reconciliation (mwmbl/indexer/update_urls.py)    *)
(* and of its curation endpoint (mwmbl/platform/curate.py).                *)
(*                                                                         *)
(* A URL string is held as the triple <<scheme, netloc, path>> that it     *)
(* splits into: "http://b/x" is <<"http", "b", "/x">>.  A string without   *)
(* "://" has an empty scheme and netloc.  Two URL strings are the same     *)
(* dictionary key exactly when their triples are equal.                    *)
(***************************************************************************)
EXTENDS Integers, Sequences, FiniteSets, TLC

\* An optional value is the empty sequence (None) or the one-element sequence
\* of the value.
None == <<>>
Some(v) == <<v>>

\* ------------------------------------------------------------------ bounds
MaxBatches == 2
MaxItems == 2
MaxCycles == 2
MaxParams == 2
MaxResults == 2
MaxHandlers == 2

\* ------------------------------------------------------- program constants
SLEEP_SECONDS == 10
BATCH_LIMIT == 100
MAX_CURATED_SCORE == 1111111

\* ---------------------------------------------------------------- universe
URL_A == <<"http", "a", "/">>
URL_B == <<"http", "b", "/">>
URL_BX == <<"http", "b", "/x">>
\* "http://[b/": urlparse raises ValueError (unbalanced bracket in the netloc)
URL_BAD == <<"http", "[b", "/">>
\* "nourl": a string without "://", which get_domain cannot resolve
URL_N == <<"", "", "nourl">>

OwnUrls == {URL_A, URL_B, URL_N}
LinkSeqs == {<<>>, <<URL_BX>>, <<URL_BAD>>}
ExtraLinkSeqs == {None, Some(<<URL_A>>)}
Timestamps == {1, 2}
Users == <<"u1", "u2", "u3">>
Blacklists == {{}, {"b"}}

URLStatus_NEW == "NEW"
URLStatus_CRAWLED == "CRAWLED"
URLStatus_ERROR_TIMEOUT == "ERROR_TIMEOUT"
BatchStatus_LOCAL == "LOCAL"
BatchStatus_URLS_UPDATED == "URLS_UPDATED"

Contents == {[links |-> l, extra_links |-> x] : l \in LinkSeqs, x \in ExtraLinkSeqs}

\* An item with content None is a failed fetch.
Items ==
    {[url |-> u, timestamp |-> t, content |-> c] :
        u \in OwnUrls, t \in Timestamps, c \in {None} \cup {Some(c) : c \in Contents}}

\* The items of the collections the driver is run on.
DriverItems ==
    {[url |-> u, timestamp |-> 1, content |-> c] :
        u \in {URL_A, URL_B},
        c \in {None, Some([links |-> <<URL_BX>>, extra_links |-> None])}}

\* The items of the collections that may hold a batch that cannot be
\* reconciled: the timestamp of the last one lies after datetime.max.
PoisonItems ==
    {[url |-> URL_A, timestamp |-> 1, content |-> None],
     [url |-> URL_B, timestamp |-> 2,
      content |-> Some([links |-> <<URL_BX>>, extra_links |-> None])],
     [url |-> URL_A, timestamp |-> 10, content |-> None]}

\* The ways to cut a sequence of n items into consecutive non-empty batches:
\* the batch number of every item, non-decreasing, starting at 1, no gap.
Cuts(n) ==
    {g \in [1..n -> 1..MaxBatches] :
        /\ n > 0 => g[1] = 1
        /\ \A i \in 1..(n - 1) : g[i + 1] \in {g[i], g[i] + 1}}

RECURSIVE SelectSeq2(_, _, _)
SelectSeq2(s, g, j) ==
    IF s = <<>> THEN <<>>
    ELSE IF g[1] = j THEN <<s[1]>> \o SelectSeq2(Tail(s), Tail(g), j)
    ELSE SelectSeq2(Tail(s), Tail(g), j)

NumBatches(g) == IF Len(g) = 0 THEN 1 ELSE g[Len(g)]

\* Batch j of the collection holds the items cut into it and is reported by
\* the j-th crawler; it waits in the batch store with status LOCAL.
Collection(s, g) ==
    [j \in 1..NumBatches(g) |->
        [user_id_hash |-> Users[j], items |-> SelectSeq2(s, g, j), status |-> BatchStatus_LOCAL]]

Collections(items) ==
    UNION {{Collection(s, g) : s \in [1..n -> items], g \in Cuts(n)} : n \in 0..MaxItems}

\* The URL of a curation request is held as what "&" and "=" split it into:
\* the sequence of its <<name, value>> fields.
QueryFields == {<<"q", "cat">>, <<"q", "Dog">>, <<"q", "">>, <<"lang", "en">>}
QueryStrings == UNION {[1..k -> QueryFields] : k \in 0..MaxParams}

CurationResults ==
    {[title |-> "t1", url |-> "r1", extract |-> "e1", validated |-> TRUE,
      source |-> <<"U", "s", "e", "r">>],
     [title |-> "t2", url |-> "r2", extract |-> "e2", validated |-> FALSE,
      source |-> <<"o", "t", "h", "e", "r">>]}
ResultSeqs == UNION {[1..k -> CurationResults] : k \in 0..MaxResults}

CurationRequests ==
    {[timestamp |-> 1, url |-> u, results |-> r, curation_type |-> "curate_add",
      curation |-> "payload"] : u \in QueryStrings, r \in ResultSeqs}

\* A source tag is held as the sequence of its characters.
Sources ==
    {<<"u", "s", "e", "r">>, <<"U", "s", "e", "r">>, <<"U", "S", "E", "R">>,
     <<"g", "o", "o", "g", "l", "e">>, <<"G", "o", "o", "g", "l", "e">>,
     <<"G", "o", "O", "g", "L", "e">>,
     <<"o", "r", "g", "a", "n", "i", "c">>, <<"u", "s", "e", "r", "s">>,
     <<"B", "i", "n", "g">>, <<>>}

\* The requests the state mapping is run on: one query, every tag.
StateResults ==
    {[title |-> "t", url |-> "r", extract |-> "e", validated |-> v, source |-> src] :
        v \in BOOLEAN, src \in Sources}
StateRequests ==
    {[timestamp |-> 1, url |-> <<<<"q", "cat">>>>, results |-> r,
      curation_type |-> "curate_validate", curation |-> "payload"] :
        r \in UNION {[1..k -> StateResults] : k \in 0..MaxResults}}

Handlers == 1..MaxHandlers
CurationUsers == <<"alice", "bob", "carol">>
Pages == {0, 1}

DocumentState_ORGANIC_APPROVED == "ORGANIC_APPROVED"
DocumentState_FROM_USER_APPROVED == "FROM_USER_APPROVED"
DocumentState_FROM_GOOGLE_APPROVED == "FROM_GOOGLE_APPROVED"
DocumentState_FROM_USER == "FROM_USER"
DocumentState_FROM_GOOGLE == "FROM_GOOGLE"
\* Optional[DocumentState]: no state
DocumentState_None == "None"

\* A term is held as the sequence of its tokens, which " ".join writes with a
\* space between them.
Document(title, url, extract, score, term, state) ==
    [title |-> title, url |-> url, extract |-> extract, score |-> score,
     term |-> term, state |-> state]

\* What the index holds before any curation: page 0 is shared by two terms.
InitialPages ==
    [p \in Pages |->
        IF p = 0
        THEN <<Document("dog one", "d1", "x", 9, <<"dog">>, DocumentState_None),
               Document("cat one", "c1", "x", 8, <<"cat">>, DocumentState_None),
               Document("dog two", "d2", "x", 7, <<"dog">>, DocumentState_None)>>
        ELSE <<>>]

\* ------------------------------------------------------- pure functions
EmptyMap == [k \in {} |-> 0]

\* d[k] = v on a dict
Put(d, k, v) == [x \in (DOMAIN d) \cup {k} |-> IF x = k THEN v ELSE d[x]]

\* get_datetime_from_timestamp(ms / 1000.0): the datetime, held as the
\* microseconds since the epoch, that lies ms / 1000.0 seconds after it.
get_datetime_from_timestamp(ms) == ms * 1000

\* datetime(1970, 1, 1) + timedelta(seconds=timestamp) raises OverflowError
\* when the sum lies after datetime.max, held here in the model's milliseconds.
DATETIME_MAX == 9

get_datetime_from_timestamp_raises(ms) == ms > DATETIME_MAX

\* urllib.parse.urlparse raises ValueError for a netloc with an unbalanced
\* bracket, and otherwise returns the scheme and netloc of the link.
urlparse_raises(link) == link[2] \in {"[b"}

urlparse(link) == [scheme |-> link[1], netloc |-> link[2]]

\* f'{parsed_link.scheme}://{parsed_link.netloc}/'
root_url(parsed_link) == <<parsed_link.scheme, parsed_link.netloc, "/">>

\* mwmbl.utils.get_domain: the domain of a URL, ValueError when it has none.
get_domain_raises(url) == url[1] = ""

get_domain(url) == url[2]

\* mwmbl.indexer.blacklist.is_domain_blacklisted
is_domain_blacklisted(domain, blacklist) == domain \in blacklist

\* mwmbl.indexer.index_batches.get_url_error_status
get_url_error_status(item) == URLStatus_ERROR_TIMEOUT

\* domain_links is a defaultdict(set); a dict keeps its keys in insertion
\* order, so it is held as the sequence of its <<key, set>> pairs.
HasKey(dl, k) == \E i \in 1..Len(dl) : dl[i][1] = k

AddLink(dl, source, target) ==
    IF HasKey(dl, source)
    THEN [i \in 1..Len(dl) |->
            IF dl[i][1] = source THEN <<source, dl[i][2] \cup {target}>> ELSE dl[i]]
    ELSE Append(dl, <<source, {target}>>)

Edges(dl) == UNION {{<<dl[i][1], t>> : t \in dl[i][2]} : i \in 1..Len(dl)}

\* process_link without its blacklist check.
process_link_unfiltered(user_id_hash, crawled_page_domain, link, timestamp, acc, blacklist) ==
    LET parsed_link == urlparse(link) IN
    IF urlparse_raises(link) THEN acc
    ELSE [url_users |->
              Put(Put(acc.url_users, link, user_id_hash),
                  root_url(parsed_link), user_id_hash),
          url_timestamps |->
              Put(Put(acc.url_timestamps, link, timestamp),
                  root_url(parsed_link), timestamp),
          domain_links |->
              AddLink(acc.domain_links, crawled_page_domain, parsed_link.netloc)]

\* process_link registering the link alone, not its root URL.
process_link_no_root(user_id_hash, crawled_page_domain, link, timestamp, acc, blacklist) ==
    LET parsed_link == urlparse(link) IN
    IF urlparse_raises(link) THEN acc
    ELSE IF is_domain_blacklisted(parsed_link.netloc, blacklist) THEN acc
    ELSE [url_users |-> Put(acc.url_users, link, user_id_hash),
          url_timestamps |-> Put(acc.url_timestamps, link, timestamp),
          domain_links |->
              AddLink(acc.domain_links, crawled_page_domain, parsed_link.netloc)]

\* process_link giving the root URL a user and no timestamp.
process_link_root_untimed(user_id_hash, crawled_page_domain, link, timestamp, acc, blacklist) ==
    LET parsed_link == urlparse(link) IN
    IF urlparse_raises(link) THEN acc
    ELSE IF is_domain_blacklisted(parsed_link.netloc, blacklist) THEN acc
    ELSE [url_users |->
              Put(Put(acc.url_users, link, user_id_hash),
                  root_url(parsed_link), user_id_hash),
          url_timestamps |-> Put(acc.url_timestamps, link, timestamp),
          domain_links |->
              AddLink(acc.domain_links, crawled_page_domain, parsed_link.netloc)]

\* process_link: acc holds the three accumulators it is handed, url_users,
\* url_timestamps and domain_links; the result is what they hold on return.
process_link(user_id_hash, crawled_page_domain, link, timestamp, acc, blacklist) ==
    LET parsed_link == urlparse(link) IN
    IF urlparse_raises(link) THEN acc
    ELSE IF is_domain_blacklisted(parsed_link.netloc, blacklist) THEN acc
    ELSE [url_users |->
              Put(Put(acc.url_users, link, user_id_hash),
                  root_url(parsed_link), user_id_hash),
          url_timestamps |->
              Put(Put(acc.url_timestamps, link, timestamp),
                  root_url(parsed_link), timestamp),
          domain_links |->
              AddLink(acc.domain_links, crawled_page_domain, parsed_link.netloc)]

\* for link in links: process_link(...)
RECURSIVE process_links(_, _, _, _, _, _)
process_links(user_id_hash, crawled_page_domain, links, timestamp, acc, blacklist) ==
    IF links = <<>> THEN acc
    ELSE process_links(user_id_hash, crawled_page_domain, Tail(links), timestamp,
             process_link(user_id_hash, crawled_page_domain, links[1], timestamp,
                          acc, blacklist),
             blacklist)

\* ------------------------------------------------------------------- state
VARIABLES
    batch_store,        \* the batch store: the batches and their status
    blacklist_source,   \* what get_blacklist_domains() returns
    url_db,             \* URLDatabase: url -> [user_id_hash, status, timestamp]
    domain_link_db,     \* DomainLinkDatabase: source domain -> target domains
    new_item_queue,     \* the pushes onto new_item_queue, oldest first
    clock,              \* seconds of wall-clock time
    pc,                 \* where update_urls_continuously stands
    cycles,             \* calls of run() started
    batches,            \* record_urls_in_database: the batches handed in
    blacklist_domains,
    url_users,
    url_timestamps,
    url_statuses,
    domain_links,
    item_no,            \* the items of batches folded so far
    found_urls,
    new_urls,
    link_no,            \* the entries of domain_links written so far
    known_before,       \* history: the URLs url_db held when update_found_urls ran
    cycle_end,          \* history: the clock when the last cycle ended, if any
    completed,          \* history: the calls that returned, and what each left
    index_pages,        \* TinyIndex: page index -> the documents of the page
    user_curations,     \* the UserCuration rows saved, oldest first
    handlers,           \* the calls of _curate: where each stands, its locals
    store_calls         \* history: the handlers that called store_in_page

vars == <<batch_store, blacklist_source, url_db, domain_link_db, new_item_queue,
          clock, pc, cycles, batches, blacklist_domains, url_users, url_timestamps,
          url_statuses, domain_links, item_no, found_urls, new_urls, link_no,
          known_before, cycle_end, completed, index_pages, user_curations,
          handlers, store_calls>>

curate_vars == <<index_pages, user_curations, handlers, store_calls>>
ingest_vars == <<batch_store, blacklist_source, url_db, domain_link_db,
                 new_item_queue, clock, pc, cycles, batches, blacklist_domains,
                 url_users, url_timestamps, url_statuses, domain_links, item_no,
                 found_urls, new_urls, link_no, known_before, cycle_end, completed>>

stores == <<batch_store, url_db, domain_link_db, new_item_queue>>
locals == <<batches, blacklist_domains, url_users, url_timestamps, url_statuses,
            domain_links, item_no, found_urls, new_urls, link_no>>

\* The items of the batches handed in, in processing order (for batch in
\* batches: for item in batch.items), each with its batch's user_id_hash.
RECURSIVE FlatItems(_, _)
FlatItems(store, ids) ==
    IF ids = <<>> THEN <<>>
    ELSE [i \in 1..Len(store[ids[1]].items) |->
             [user_id_hash |-> store[ids[1]].user_id_hash,
              item |-> store[ids[1]].items[i]]]
         \o FlatItems(store, Tail(ids))

Work == FlatItems(batch_store, batches)

\* A call of _curate that has not come in yet.
IdleHandler ==
    [pc |-> "idle", curation |-> None, term |-> <<>>, page_index |-> 0,
     documents |-> <<>>, existing_documents |-> <<>>, error |-> ""]

InitFrom(collections) ==
    /\ batch_store \in collections
    /\ blacklist_source \in Blacklists
    /\ url_db = EmptyMap
    /\ domain_link_db = EmptyMap
    /\ new_item_queue = <<>>
    /\ clock = 0
    /\ pc = "fetch"
    /\ cycles = 0
    /\ batches = <<>>
    /\ blacklist_domains = {}
    /\ url_users = EmptyMap
    /\ url_timestamps = EmptyMap
    /\ url_statuses = EmptyMap
    /\ domain_links = <<>>
    /\ item_no = 0
    /\ found_urls = {}
    /\ new_urls = {}
    /\ link_no = 0
    /\ known_before = {}
    /\ cycle_end = None
    /\ completed = <<>>
    /\ index_pages = InitialPages
    /\ user_curations = <<>>
    /\ handlers = [h \in Handlers |-> IdleHandler]
    /\ store_calls = {}

\* ------------------------------------------------- record_urls_in_database
\* The time of the call (start = datetime.now()) taken for the item's.
item_timestamp_now(item) == clock * 1000000

\* timestamp = get_datetime_from_timestamp(item.timestamp / 1000.0)
item_timestamp(item) == get_datetime_from_timestamp(item.timestamp)

\* The status an item gives its own URL.
item_status(item) ==
    IF item.content = None THEN get_url_error_status(item) ELSE URLStatus_CRAWLED

\* The links of one crawled item, links first and then extra_links (skipped
\* when None or empty), handed to process_link one by one.
item_links(user_id_hash, crawled_page_domain, content, timestamp, acc, blacklist) ==
    LET after_links ==
            process_links(user_id_hash, crawled_page_domain, content.links,
                          timestamp, acc, blacklist)
    IN  IF content.extra_links = None \/ content.extra_links = Some(<<>>)
        THEN after_links
        ELSE process_links(user_id_hash, crawled_page_domain, content.extra_links[1],
                           timestamp, after_links, blacklist)

\* fold_item without the try/except around get_domain doing its work: the
\* links of a page whose own URL has no domain are processed all the same.
fold_item_links_despite_error(user_id_hash, item, acc, blacklist) ==
    LET timestamp == item_timestamp(item)
        own == [url_users |-> Put(acc.url_users, item.url, user_id_hash),
                url_timestamps |-> Put(acc.url_timestamps, item.url, timestamp),
                domain_links |-> acc.domain_links]
        statuses == Put(acc.url_statuses, item.url, item_status(item))
        linked ==
            IF item.content = None THEN own
            ELSE item_links(user_id_hash, get_domain(item.url), item.content[1],
                            timestamp, own, blacklist)
    IN  [url_users |-> linked.url_users,
         url_timestamps |-> linked.url_timestamps,
         url_statuses |-> statuses,
         domain_links |-> linked.domain_links]

\* fold_item with a process_link that also writes url_statuses[link] and
\* url_statuses[root_url] = URLStatus.NEW.
fold_item_links_reset_status(user_id_hash, item, acc, blacklist) ==
    LET timestamp == item_timestamp(item)
        own == [url_users |-> Put(acc.url_users, item.url, user_id_hash),
                url_timestamps |-> Put(acc.url_timestamps, item.url, timestamp),
                domain_links |-> acc.domain_links]
        statuses == Put(acc.url_statuses, item.url, item_status(item))
        expands == item.content # None /\ ~get_domain_raises(item.url)
        linked ==
            IF expands
            THEN item_links(user_id_hash, get_domain(item.url), item.content[1],
                            timestamp, own, blacklist)
            ELSE own
        registered ==
            IF expands
            THEN DOMAIN item_links(user_id_hash, get_domain(item.url),
                                   item.content[1], timestamp,
                                   [url_users |-> EmptyMap,
                                    url_timestamps |-> EmptyMap,
                                    domain_links |-> <<>>], blacklist).url_users
            ELSE {}
    IN  [url_users |-> linked.url_users,
         url_timestamps |-> linked.url_timestamps,
         url_statuses |->
             [u \in (DOMAIN statuses) \cup registered |->
                 IF u \in registered THEN URLStatus_NEW ELSE statuses[u]],
         domain_links |-> linked.domain_links]

\* fold_item applying the blacklist to the crawled page too: an item whose
\* own domain is blacklisted is skipped.
fold_item_skips_blacklisted_page(user_id_hash, item, acc, blacklist) ==
    LET timestamp == item_timestamp(item)
        own == [url_users |-> Put(acc.url_users, item.url, user_id_hash),
                url_timestamps |-> Put(acc.url_timestamps, item.url, timestamp),
                domain_links |-> acc.domain_links]
        statuses == Put(acc.url_statuses, item.url, item_status(item))
        linked ==
            IF item.content = None THEN own
            ELSE IF get_domain_raises(item.url) THEN own
            ELSE item_links(user_id_hash, get_domain(item.url), item.content[1],
                            timestamp, own, blacklist)
    IN  IF ~get_domain_raises(item.url)
           /\ is_domain_blacklisted(get_domain(item.url), blacklist)
        THEN acc
        ELSE [url_users |-> linked.url_users,
              url_timestamps |-> linked.url_timestamps,
              url_statuses |-> statuses,
              domain_links |-> linked.domain_links]

\* fold_item setting the status of a URL only when it is seen for the first time.
fold_item_first_wins(user_id_hash, item, acc, blacklist) ==
    LET timestamp == item_timestamp(item)
        own == [url_users |-> Put(acc.url_users, item.url, user_id_hash),
                url_timestamps |-> Put(acc.url_timestamps, item.url, timestamp),
                domain_links |-> acc.domain_links]
        statuses ==
            IF item.url \in DOMAIN acc.url_users THEN acc.url_statuses
            ELSE Put(acc.url_statuses, item.url, item_status(item))
        linked ==
            IF item.content = None THEN own
            ELSE IF get_domain_raises(item.url) THEN own
            ELSE item_links(user_id_hash, get_domain(item.url), item.content[1],
                            timestamp, own, blacklist)
    IN  [url_users |-> linked.url_users,
         url_timestamps |-> linked.url_timestamps,
         url_statuses |-> statuses,
         domain_links |-> linked.domain_links]

\* fold_item keeping, for the item's own URL, the observation with the
\* greater timestamp.
fold_item_newest_wins(user_id_hash, item, acc, blacklist) ==
    LET timestamp == item_timestamp(item)
        newer ==
            \/ item.url \notin DOMAIN acc.url_timestamps
            \/ acc.url_timestamps[item.url] <= timestamp
        own == [url_users |->
                    IF newer THEN Put(acc.url_users, item.url, user_id_hash)
                    ELSE acc.url_users,
                url_timestamps |->
                    IF newer THEN Put(acc.url_timestamps, item.url, timestamp)
                    ELSE acc.url_timestamps,
                domain_links |-> acc.domain_links]
        statuses ==
            IF newer THEN Put(acc.url_statuses, item.url, item_status(item))
            ELSE acc.url_statuses
        linked ==
            IF item.content = None THEN own
            ELSE IF get_domain_raises(item.url) THEN own
            ELSE item_links(user_id_hash, get_domain(item.url), item.content[1],
                            timestamp, own, blacklist)
    IN  [url_users |-> linked.url_users,
         url_timestamps |-> linked.url_timestamps,
         url_statuses |-> statuses,
         domain_links |-> linked.domain_links]

\* One pass of the body of "for item in batch.items": the four accumulators
\* after it, given the four before it.
fold_item(user_id_hash, item, acc, blacklist) ==
    LET timestamp == item_timestamp(item)
        own == [url_users |-> Put(acc.url_users, item.url, user_id_hash),
                url_timestamps |-> Put(acc.url_timestamps, item.url, timestamp),
                domain_links |-> acc.domain_links]
        statuses == Put(acc.url_statuses, item.url, item_status(item))
        linked ==
            IF item.content = None THEN own
            ELSE IF get_domain_raises(item.url) THEN own
            ELSE item_links(user_id_hash, get_domain(item.url), item.content[1],
                            timestamp, own, blacklist)
    IN  [url_users |-> linked.url_users,
         url_timestamps |-> linked.url_timestamps,
         url_statuses |-> statuses,
         domain_links |-> linked.domain_links]

\* FoundURL(url, url_users[url], url_statuses[url], url_timestamps[url])
FoundURL(url, user_id_hash, status, timestamp) ==
    [url |-> url, user_id_hash |-> user_id_hash, status |-> status,
     timestamp |-> timestamp]

\* url_statuses.keys() | url_users.keys()
found_keys == (DOMAIN url_statuses) \cup (DOMAIN url_users)

\* defaultdict(lambda: URLStatus.CRAWLED)
default_status_crawled == URLStatus_CRAWLED

\* url_statuses is a defaultdict: a missing key reads as URLStatus.NEW.
default_status == URLStatus_NEW

status_of(statuses, url) ==
    IF url \in DOMAIN statuses THEN statuses[url] ELSE default_status

\* ------------------------------------------------------------ collaborators
\* URLDatabase.update_found_urls: an upsert that returns the records whose URL
\* was not known before.
newly_discovered(db, found) == {f \in found : f.url \notin DOMAIN db}

upsert_found_urls(db, found) ==
    [u \in (DOMAIN db) \cup {f.url : f \in found} |->
        IF \E f \in found : f.url = u
        THEN LET f == CHOOSE g \in found : g.url = u
             IN  [user_id_hash |-> f.user_id_hash, status |-> f.status,
                  timestamp |-> f.timestamp]
        ELSE db[u]]

\* DomainLinkDatabase.update_domain_links: the targets are merged into the
\* source's set.
merge_domain_links(db, source, targets) ==
    Put(db, source, (IF source \in DOMAIN db THEN db[source] ELSE {}) \cup targets)

\* process_batch.run: up to max_batches batches in start_status, in store order.
RECURSIVE batches_by_status(_, _, _, _)
batches_by_status(store, status, max_batches, from) ==
    IF from > Len(store) \/ max_batches = 0 THEN <<>>
    ELSE IF store[from].status = status
    THEN <<from>> \o batches_by_status(store, status, max_batches - 1, from + 1)
    ELSE batches_by_status(store, status, max_batches, from + 1)

\* ------------------------------------------------- update_urls_continuously
\* No try/except around run(): the exception ends the driver.
OnException_uncaught == "stopped"

\* except Exception: logger.exception(...), then the sleep(10) after the try.
OnException == "sleep"

\* new_item_queue.put(found_urls)
queue_payload_all == found_urls

\* What new_item_queue.put is handed.
queue_payload == new_urls

ResetLocals ==
    /\ batches' = <<>>
    /\ blacklist_domains' = {}
    /\ url_users' = EmptyMap
    /\ url_timestamps' = EmptyMap
    /\ url_statuses' = EmptyMap
    /\ domain_links' = <<>>
    /\ item_no' = 0
    /\ found_urls' = {}
    /\ new_urls' = {}
    /\ link_no' = 0

\* The call in progress, as the history remembers it once it has returned.
Snapshot ==
    [cycle |-> cycles, batches |-> batches, blacklist |-> blacklist_domains,
     found_urls |-> found_urls, new_urls |-> new_urls, url_db |-> url_db,
     domain_link_db |-> domain_link_db]

\* run(): process_batch.run fetches the batches to reconcile.
FetchBatches ==
    /\ pc = "fetch"
    /\ cycles < MaxCycles
    /\ cycles' = cycles + 1
    /\ batches' = batches_by_status(batch_store, BatchStatus_LOCAL, BATCH_LIMIT, 1)
    /\ pc' = "reconcile"
    /\ UNCHANGED <<stores, blacklist_source, clock, blacklist_domains, url_users,
                   url_timestamps, url_statuses, domain_links, item_no, found_urls,
                   new_urls, link_no, known_before, cycle_end, completed>>
    /\ UNCHANGED curate_vars

\* record_urls_in_database, entry: the blacklist is fetched, the accumulators
\* are created empty.
StartRecording ==
    /\ pc = "reconcile"
    /\ blacklist_domains' = blacklist_source
    /\ url_users' = EmptyMap
    /\ url_timestamps' = EmptyMap
    /\ url_statuses' = EmptyMap
    /\ domain_links' = <<>>
    /\ item_no' = 0
    /\ pc' = "fold"
    /\ UNCHANGED <<stores, blacklist_source, clock, cycles, batches, found_urls,
                   new_urls, link_no, known_before, cycle_end, completed>>
    /\ UNCHANGED curate_vars

\* One item of the nested loops, with every process_link call it makes; the
\* OverflowError of get_datetime_from_timestamp leaves the call and the cycle.
FoldItem ==
    /\ pc = "fold"
    /\ item_no < Len(Work)
    /\ LET w == Work[item_no + 1]
           acc == fold_item(w.user_id_hash, w.item,
                      [url_users |-> url_users, url_timestamps |-> url_timestamps,
                       url_statuses |-> url_statuses, domain_links |-> domain_links],
                      blacklist_domains)
       IN  IF get_datetime_from_timestamp_raises(w.item.timestamp)
           THEN /\ pc' = OnException
                /\ cycle_end' = Some(clock)
                /\ ResetLocals
           ELSE /\ url_users' = acc.url_users
                /\ url_timestamps' = acc.url_timestamps
                /\ url_statuses' = acc.url_statuses
                /\ domain_links' = acc.domain_links
                /\ item_no' = item_no + 1
                /\ UNCHANGED <<pc, batches, blacklist_domains, found_urls,
                               new_urls, link_no, cycle_end>>
    /\ UNCHANGED <<stores, blacklist_source, clock, cycles, known_before, completed>>
    /\ UNCHANGED curate_vars

\* found_urls = [FoundURL(...) for url in url_statuses.keys() | url_users.keys()];
\* a key missing from url_users or url_timestamps raises KeyError.
BuildFoundUrls ==
    /\ pc = "fold"
    /\ item_no = Len(Work)
    /\ IF found_keys \subseteq (DOMAIN url_users) \cap (DOMAIN url_timestamps)
       THEN /\ found_urls' =
                   {FoundURL(u, url_users[u], status_of(url_statuses, u),
                             url_timestamps[u]) : u \in found_keys}
            /\ url_statuses' = [u \in found_keys |-> status_of(url_statuses, u)]
            /\ pc' = "update_urls"
            /\ UNCHANGED <<batches, blacklist_domains, url_users, url_timestamps,
                           domain_links, item_no, new_urls, link_no, cycle_end>>
       ELSE /\ pc' = OnException
            /\ cycle_end' = Some(clock)
            /\ ResetLocals
    /\ UNCHANGED <<stores, blacklist_source, clock, cycles, known_before, completed>>
    /\ UNCHANGED curate_vars

\* new_urls = url_db.update_found_urls(found_urls)
UpdateFoundUrls ==
    /\ pc = "update_urls"
    /\ known_before' = DOMAIN url_db
    /\ new_urls' = newly_discovered(url_db, found_urls)
    /\ url_db' = upsert_found_urls(url_db, found_urls)
    /\ pc' = "put"
    /\ UNCHANGED <<batch_store, domain_link_db, new_item_queue, blacklist_source,
                   clock, cycles, batches, blacklist_domains, url_users,
                   url_timestamps, url_statuses, domain_links, item_no, found_urls,
                   link_no, cycle_end, completed>>
    /\ UNCHANGED curate_vars

\* new_item_queue.put(new_urls)
QueuePut ==
    /\ pc = "put"
    /\ new_item_queue' = Append(new_item_queue, queue_payload)
    /\ link_no' = 0
    /\ pc' = IF domain_links = <<>> THEN "mark" ELSE "update_links"
    /\ UNCHANGED <<batch_store, url_db, domain_link_db, blacklist_source, clock,
                   cycles, batches, blacklist_domains, url_users, url_timestamps,
                   url_statuses, domain_links, item_no, found_urls, new_urls,
                   known_before, cycle_end, completed>>
    /\ UNCHANGED curate_vars

\* One pass of "for source_domain, target_domains in domain_links.items()".
UpdateDomainLinks ==
    /\ pc = "update_links"
    /\ link_no < Len(domain_links)
    /\ domain_link_db' =
           merge_domain_links(domain_link_db, domain_links[link_no + 1][1],
                              domain_links[link_no + 1][2])
    /\ link_no' = link_no + 1
    /\ pc' = IF link_no + 1 = Len(domain_links) THEN "mark" ELSE "update_links"
    /\ UNCHANGED <<batch_store, url_db, new_item_queue, blacklist_source, clock,
                   cycles, batches, blacklist_domains, url_users, url_timestamps,
                   url_statuses, domain_links, item_no, found_urls, new_urls,
                   known_before, cycle_end, completed>>
    /\ UNCHANGED curate_vars

\* record_urls_in_database has returned; process_batch.run moves the batches
\* to end_status and run() returns.
MarkBatches ==
    /\ pc = "mark"
    /\ batch_store' =
           [i \in 1..Len(batch_store) |->
               IF \E k \in 1..Len(batches) : batches[k] = i
               THEN [batch_store[i] EXCEPT !.status = BatchStatus_URLS_UPDATED]
               ELSE batch_store[i]]
    /\ completed' = Append(completed, Snapshot)
    /\ cycle_end' = Some(clock)
    /\ pc' = "sleep"
    /\ ResetLocals
    /\ UNCHANGED <<url_db, domain_link_db, new_item_queue, blacklist_source, clock,
                   cycles, known_before>>
    /\ UNCHANGED curate_vars

\* A call to a collaborator raises: the batch store (fetching, marking), the
\* blacklist source, the URL database, the domain-link database.
CycleRaises ==
    /\ \/ pc = "fetch" /\ cycles < MaxCycles
       \/ pc \in {"reconcile", "update_urls", "update_links", "mark"}
    /\ cycles' = IF pc = "fetch" THEN cycles + 1 ELSE cycles
    /\ completed' = IF pc = "mark" THEN Append(completed, Snapshot) ELSE completed
    /\ cycle_end' = Some(clock)
    /\ pc' = OnException
    /\ ResetLocals
    /\ UNCHANGED <<stores, blacklist_source, clock, known_before>>
    /\ UNCHANGED curate_vars

\* sleep(10)
Sleep ==
    /\ pc = "sleep"
    /\ clock' = clock + SLEEP_SECONDS
    /\ pc' = "fetch"
    /\ UNCHANGED <<stores, blacklist_source, cycles, locals, known_before,
                   cycle_end, completed>>
    /\ UNCHANGED curate_vars

\* The process is terminated inside a cycle and started again: what the call
\* held in memory is gone, what the stores hold stays, and the new process
\* begins with a fetch.
Terminate ==
    /\ pc \in {"reconcile", "fold", "update_urls", "put", "update_links", "mark"}
    /\ pc' = "fetch"
    /\ cycle_end' = None
    /\ ResetLocals
    /\ UNCHANGED <<stores, blacklist_source, clock, cycles, known_before, completed>>
    /\ UNCHANGED curate_vars

\* The blacklist source changes between two cycles.
BlacklistChanges ==
    /\ pc = "sleep"
    /\ blacklist_source' \in Blacklists \ {blacklist_source}
    /\ UNCHANGED <<stores, clock, pc, cycles, locals, known_before, cycle_end,
                   completed>>
    /\ UNCHANGED curate_vars

Next ==
    \/ FetchBatches
    \/ StartRecording
    \/ FoldItem
    \/ BuildFoundUrls
    \/ UpdateFoundUrls
    \/ QueuePut
    \/ UpdateDomainLinks
    \/ MarkBatches
    \/ CycleRaises
    \/ Sleep
    \/ BlacklistChanges

Init == InitFrom(Collections(DriverItems))

Spec == Init /\ [][Next]_vars

\* The fold of record_urls_in_database alone, on every collection of Items:
\* from the batches handed in to found_urls.
InitFold == InitFrom(Collections(Items))

NextFold ==
    \/ FetchBatches
    \/ StartRecording
    \/ FoldItem
    \/ BuildFoundUrls

SpecFold == InitFold /\ [][NextFold]_vars

\* The driver on collections that may hold a batch that always raises, with
\* no other failure: every collaborator answers.
InitPoison == InitFrom(Collections(PoisonItems))

NextPoison ==
    \/ FetchBatches
    \/ StartRecording
    \/ FoldItem
    \/ BuildFoundUrls
    \/ UpdateFoundUrls
    \/ QueuePut
    \/ UpdateDomainLinks
    \/ MarkBatches
    \/ Sleep

SpecPoison == InitPoison /\ [][NextPoison]_vars

\* The driver, with every collaborator answering, in a process that can be
\* terminated at any point of a cycle and started again.
NextCrash ==
    \/ FetchBatches
    \/ StartRecording
    \/ FoldItem
    \/ BuildFoundUrls
    \/ UpdateFoundUrls
    \/ QueuePut
    \/ UpdateDomainLinks
    \/ MarkBatches
    \/ Sleep
    \/ Terminate

SpecCrash == Init /\ [][NextCrash]_vars

\* ----------------------------------------------------------------- _curate
\* One more value under a key of the dict parse_qs builds, held like
\* domain_links as the sequence of its <<key, list>> pairs.
AddValue(d, name, value) ==
    IF HasKey(d, name)
    THEN [i \in 1..Len(d) |->
            IF d[i][1] = name THEN <<name, Append(d[i][2], value)>> ELSE d[i]]
    ELSE Append(d, <<name, <<value>>>>)

\* urllib.parse.parse_qs: the values of every name, in order; a field with a
\* blank value is dropped (keep_blank_values is False).
RECURSIVE parse_qs_from(_, _)
parse_qs_from(fields, d) ==
    IF fields = <<>> THEN d
    ELSE parse_qs_from(Tail(fields),
             IF fields[1][2] = "" THEN d
             ELSE AddValue(d, fields[1][1], fields[1][2]))

parse_qs(url) == parse_qs_from(url, <<>>)

\* query_error without the check of the number of values.
query_error_one_check(query_string) ==
    IF Len(query_string) > 1 THEN "ValueError"
    ELSE IF Len(query_string) = 0 THEN "StopIteration"
    ELSE ""

\* What the checks of the parsed query raise, "" when they pass:
\* len(query_string) > 1, next(iter(query_string.values())) on an empty dict,
\* len(queries) > 1.
query_error(query_string) ==
    IF Len(query_string) > 1 THEN "ValueError"
    ELSE IF Len(query_string) = 0 THEN "StopIteration"
    ELSE IF Len(query_string[1][2]) > 1 THEN "ValueError"
    ELSE ""

\* mwmbl.tokenizer.tokenize: the lower-cased words of the text.
tokenize(text) == IF text = "Dog" THEN <<"dog">> ELSE <<text>>

\* TinyIndex.get_key_page_index: the page a term hashes to.
get_key_page_index(term) == IF term = <<"en">> THEN 1 ELSE 0

\* str.lower: every upper-case letter becomes its lower-case letter, every
\* other character is kept.
UpperCase == <<"A", "B", "C", "D", "E", "F", "G", "H", "I", "J", "K", "L", "M",
               "N", "O", "P", "Q", "R", "S", "T", "U", "V", "W", "X", "Y", "Z">>
LowerCase == <<"a", "b", "c", "d", "e", "f", "g", "h", "i", "j", "k", "l", "m",
               "n", "o", "p", "q", "r", "s", "t", "u", "v", "w", "x", "y", "z">>

lower(source) ==
    [i \in 1..Len(source) |->
        IF \E k \in 1..Len(UpperCase) : UpperCase[k] = source[i]
        THEN LowerCase[CHOOSE k \in 1..Len(UpperCase) : UpperCase[k] = source[i]]
        ELSE source[i]]

\* _get_document_state comparing source itself, without lower().
get_document_state_case_sensitive(validated, source) ==
    IF validated
    THEN IF source = <<"u", "s", "e", "r">> THEN DocumentState_FROM_USER_APPROVED
         ELSE IF source = <<"g", "o", "o", "g", "l", "e">>
         THEN DocumentState_FROM_GOOGLE_APPROVED
         ELSE DocumentState_ORGANIC_APPROVED
    ELSE IF source = <<"u", "s", "e", "r">> THEN DocumentState_FROM_USER
    ELSE IF source = <<"g", "o", "o", "g", "l", "e">> THEN DocumentState_FROM_GOOGLE
    ELSE DocumentState_None

get_document_state(validated, source) ==
    IF validated
    THEN IF lower(source) = <<"u", "s", "e", "r">>
         THEN DocumentState_FROM_USER_APPROVED
         ELSE IF lower(source) = <<"g", "o", "o", "g", "l", "e">>
         THEN DocumentState_FROM_GOOGLE_APPROVED
         ELSE DocumentState_ORGANIC_APPROVED
    ELSE IF lower(source) = <<"u", "s", "e", "r">> THEN DocumentState_FROM_USER
    ELSE IF lower(source) = <<"g", "o", "o", "g", "l", "e">>
    THEN DocumentState_FROM_GOOGLE
    ELSE DocumentState_None

\* curated_documents giving every document the top score.
curated_documents_same_score(results, term) ==
    [i \in 1..Len(results) |->
        Document(results[i].title, results[i].url, results[i].extract,
                 MAX_CURATED_SCORE, term,
                 get_document_state(results[i].validated, results[i].source))]

\* documents = [Document(...) for i, result in enumerate(curation.results)]
curated_documents(results, term) ==
    [i \in 1..Len(results) |->
        Document(results[i].title, results[i].url, results[i].extract,
                 MAX_CURATED_SCORE - (i - 1), term,
                 get_document_state(results[i].validated, results[i].source))]

\* other_documents without the filter: the whole page is kept.
other_documents_all(existing_documents, term) == existing_documents

\* other_documents = [doc for doc in existing_documents if doc.term != term]
other_documents(existing_documents, term) ==
    SelectSeq(existing_documents, LAMBDA doc : doc.term # term)

UserCuration(user, curation) ==
    [user |-> user,
     timestamp |-> get_datetime_from_timestamp(curation.timestamp),
     url |-> curation.url, results |-> curation.results,
     curation_type |-> curation.curation_type, curation |-> curation.curation]

\* A request comes in: _curate builds the UserCuration row and saves it.
CurateSaveFrom(h, requests) ==
    /\ handlers[h].pc = "idle"
    /\ \E curation \in requests :
          /\ user_curations' =
                 Append(user_curations, UserCuration(CurationUsers[h], curation))
          /\ handlers' =
                 [handlers EXCEPT ![h] =
                     [IdleHandler EXCEPT !.pc = "saved", !.curation = Some(curation)]]
    /\ UNCHANGED <<index_pages, store_calls>>
    /\ UNCHANGED ingest_vars

CurateSave(h) == CurateSaveFrom(h, CurationRequests)

\* The index is opened, the URL parsed and checked; when the checks pass the
\* term and the documents are computed and the term's page is read.
CurateRead(h) ==
    /\ handlers[h].pc = "saved"
    /\ LET curation == handlers[h].curation[1]
           query_string == parse_qs(curation.url)
           error == query_error(query_string)
           term == tokenize(query_string[1][2][1])
           page_index == get_key_page_index(term)
       IN  handlers' =
               [handlers EXCEPT ![h] =
                   IF error # ""
                   THEN [@ EXCEPT !.pc = "error", !.error = error]
                   ELSE [@ EXCEPT !.pc = "read",
                                  !.term = term,
                                  !.page_index = page_index,
                                  !.documents =
                                      curated_documents(curation.results, term),
                                  !.existing_documents = index_pages[page_index]]]
    /\ UNCHANGED <<index_pages, user_curations, store_calls>>
    /\ UNCHANGED ingest_vars

\* The documents of other terms are kept behind the curated ones and the page
\* is replaced: indexer.store_in_page(page_index, all_documents).
CurateStore(h) ==
    /\ handlers[h].pc = "read"
    /\ index_pages' =
           [index_pages EXCEPT ![handlers[h].page_index] =
               handlers[h].documents
               \o other_documents(handlers[h].existing_documents, handlers[h].term)]
    /\ store_calls' = store_calls \cup {h}
    /\ handlers' = [handlers EXCEPT ![h].pc = "ok"]
    /\ UNCHANGED user_curations
    /\ UNCHANGED ingest_vars

InitCurate == InitFrom({<<>>}) /\ blacklist_source = {}

NextCurate ==
    \E h \in Handlers :
        \/ CurateSave(h)
        \/ CurateRead(h)
        \/ CurateStore(h)

SpecCurate == InitCurate /\ [][NextCurate]_vars

\* One request at a time, its results tagged with every source.
NextState ==
    \/ CurateSaveFrom(1, StateRequests)
    \/ CurateRead(1)
    \/ CurateStore(1)

SpecState == InitCurate /\ [][NextState]_vars

\* ------------------------------------------------- what the batches observe
\* The statements below are about the items folded so far, Work[1..item_no],
\* and after the fold about all of Work.
Folded == 1..item_no

SeqSet(q) == {q[i] : i \in 1..Len(q)}

Max(S) == CHOOSE m \in S : \A x \in S : x <= m

\* Every entry of links and extra_links of the k-th item.
LinksOf(k) ==
    LET c == Work[k].item.content IN
    IF c = None THEN {}
    ELSE SeqSet(c[1].links)
         \cup (IF c[1].extra_links = None THEN {} ELSE SeqSet(c[1].extra_links[1]))

\* The k-th item has content and its own URL resolves to a domain.
Expands(k) ==
    /\ Work[k].item.content # None
    /\ ~get_domain_raises(Work[k].item.url)

Parses(link) == ~urlparse_raises(link)

Blacklisted(link) ==
    Parses(link) /\ is_domain_blacklisted(urlparse(link).netloc, blacklist_domains)

\* The URLs the k-th item registers through its links: every link that parses
\* and is not blacklisted, and the root URL of each.
LinkUrlsOf(k) ==
    IF Expands(k)
    THEN UNION {{l, root_url(urlparse(l))} :
                   l \in {x \in LinksOf(k) : Parses(x) /\ ~Blacklisted(x)}}
    ELSE {}

\* The k-th item observes url: as its own URL, or through one of its links.
Touches(k, url) == Work[k].item.url = url \/ url \in LinkUrlsOf(k)

Touching(url) == {k \in Folded : Touches(k, url)}
Owning(url) == {k \in Folded : Work[k].item.url = url}
AllUrls == {URL_A, URL_B, URL_BX, URL_BAD, URL_N}
Observed == {url \in AllUrls : Touching(url) # {}}

FoundUrlOf(url) == CHOOSE f \in found_urls : f.url = url
FoundUrlSet == {f.url : f \in found_urls}
Targets(dl) == UNION {dl[i][2] : i \in 1..Len(dl)}

Folding == pc = "fold"
FoldDone == pc = "update_urls"

\* ------------------------------------------------------------------ claims

\* C2 (blacklist exclusion): on the accumulators of every reachable fold
\* state, process_link called with a link whose domain is blacklisted returns
\* them unchanged; and once the fold is done, a blacklisted link of an item
\* has no FoundURL under its own URL nor under its root URL unless that URL is
\* observed another way (as an item's own URL or through an accepted link),
\* and no set of domain_links holds its domain.
C2_BlacklistExclusion ==
    LET acc == [url_users |-> url_users, url_timestamps |-> url_timestamps,
                domain_links |-> domain_links]
    IN  /\ (Folding \/ FoldDone) =>
            \A link \in AllUrls : \A u \in {"u1", "u2"} :
                Blacklisted(link) =>
                    process_link(u, "a", link, 7, acc, blacklist_domains) = acc
        /\ FoldDone =>
            \A k \in Folded : \A link \in LinksOf(k) :
                Blacklisted(link) =>
                    /\ Touching(link) = {} => link \notin FoundUrlSet
                    /\ Touching(root_url(urlparse(link))) = {} =>
                           root_url(urlparse(link)) \notin FoundUrlSet
                    /\ urlparse(link).netloc \notin Targets(domain_links)

C2_Witness ==
    /\ FoldDone
    /\ found_urls # {}
    /\ \E k \in Folded :
          /\ Expands(k)
          /\ URL_BX \in LinksOf(k)
          /\ Blacklisted(URL_BX)
          /\ Touching(URL_BX) = {}
          /\ Touching(URL_B) = {}

\* C3 as stated (frontier expansion): every link, in links or extra_links, of
\* an item with content whose own domain resolves, unless it is blacklisted,
\* is registered when the item is folded under its exact URL and under its
\* root URL with the item's user and timestamp, with an edge from the page's
\* domain to the link's domain, and the output has a FoundURL for both URLs.
C3_Registered(k, link) ==
    LET root == root_url(urlparse(link))
        user == Work[k].user_id_hash
        timestamp == item_timestamp(Work[k].item)
    IN  /\ k = item_no =>
            /\ {link, root} \subseteq (DOMAIN url_users) \cap (DOMAIN url_timestamps)
            /\ url_users[link] = user /\ url_users[root] = user
            /\ url_timestamps[link] = timestamp /\ url_timestamps[root] = timestamp
            /\ <<get_domain(Work[k].item.url), urlparse(link).netloc>>
                   \in Edges(domain_links)
        /\ FoldDone =>
            /\ {link, root} \subseteq FoundUrlSet
            /\ <<get_domain(Work[k].item.url), urlparse(link).netloc>>
                   \in Edges(domain_links)

C3_AsStated ==
    (Folding \/ FoldDone) =>
        \A k \in Folded : \A link \in LinksOf(k) :
            (Expands(k) /\ ~Blacklisted(link)) => C3_Registered(k, link)

\* C3 (frontier expansion), amended: the same for every link that parses and
\* is not blacklisted.
C3_FrontierExpansion ==
    (Folding \/ FoldDone) =>
        \A k \in Folded : \A link \in LinksOf(k) :
            (Expands(k) /\ Parses(link) /\ ~Blacklisted(link))
                => C3_Registered(k, link)

C3_Witness ==
    /\ FoldDone
    /\ \E k \in Folded :
          /\ Work[k].item.url = URL_A
          /\ Expands(k)
          /\ URL_BX \in LinksOf(k)
          /\ ~Blacklisted(URL_BX)
          /\ {URL_BX, URL_B} \subseteq FoundUrlSet
          /\ <<"a", "b">> \in Edges(domain_links)

\* C4 (status precedence): a URL that an item registers through a link before
\* any item has it as its own URL, and whose last item of its own has content,
\* ends with status CRAWLED.
C4_StatusPrecedence ==
    FoldDone =>
        \A url \in Observed :
            (/\ Owning(url) # {}
             /\ \E j \in Folded : url \in LinkUrlsOf(j) /\ \A k \in Owning(url) : j < k
             /\ Work[Max(Owning(url))].item.content # None)
            => /\ url \in FoundUrlSet
               /\ FoundUrlOf(url).status = URLStatus_CRAWLED

C4_Witness ==
    /\ FoldDone
    /\ Owning(URL_B) = {2}
    /\ URL_B \in LinkUrlsOf(1)
    /\ Work[2].item.content # None
    /\ FoundUrlOf(URL_B).status = URLStatus_CRAWLED

\* The user and timestamp of the last item that observes url, and the status
\* the last item with url as its own URL gives it.
LastUser(url) == Work[Max(Touching(url))].user_id_hash
LastTimestamp(url) == item_timestamp(Work[Max(Touching(url))].item)
LastOwnStatus(url) ==
    IF Owning(url) = {} THEN URLStatus_NEW ELSE item_status(Work[Max(Owning(url))].item)

\* The status of the last observation of url: the one its item gives it when
\* that is an observation of it as the item's own URL and no link of the item
\* observes it afterwards, NEW when the last observation is through a link.
LastObservedStatus(url) ==
    LET k == Max(Touching(url)) IN
    IF Work[k].item.url = url /\ url \notin LinkUrlsOf(k)
    THEN item_status(Work[k].item)
    ELSE URLStatus_NEW

\* C5 as stated (last write wins): the output record of every observed URL
\* carries the user, the timestamp and the status of its last observation.
C5_AsStated ==
    FoldDone =>
        \A url \in Observed :
            /\ url \in FoundUrlSet
            /\ FoundUrlOf(url).user_id_hash = LastUser(url)
            /\ FoundUrlOf(url).timestamp = LastTimestamp(url)
            /\ FoundUrlOf(url).status = LastObservedStatus(url)

\* C5 (last write wins), amended: the output record of every observed URL
\* carries the user and timestamp of its last observation of any kind (own
\* URL, link or link root), whatever the timestamps are, and the status given
\* by the last item that has it as its own URL, NEW when there is none; the
\* same holds of the accumulators after every item.
C5_LastWriteWins ==
    /\ (Folding \/ FoldDone) =>
          \A url \in Observed :
              /\ url \in (DOMAIN url_users) \cap (DOMAIN url_timestamps)
              /\ url_users[url] = LastUser(url)
              /\ url_timestamps[url] = LastTimestamp(url)
              /\ status_of(url_statuses, url) = LastOwnStatus(url)
    /\ FoldDone =>
          \A url \in Observed :
              /\ url \in FoundUrlSet
              /\ FoundUrlOf(url).user_id_hash = LastUser(url)
              /\ FoundUrlOf(url).timestamp = LastTimestamp(url)
              /\ FoundUrlOf(url).status = LastOwnStatus(url)

\* Two items with the same own URL, the later one with the smaller timestamp
\* and from another user; the record carries the later one's.
C5_Witness ==
    /\ FoldDone
    /\ item_no = 2
    /\ Work[1].item.url = URL_A /\ Work[2].item.url = URL_A
    /\ Work[1].item.timestamp > Work[2].item.timestamp
    /\ Work[1].user_id_hash # Work[2].user_id_hash
    /\ Work[1].item.content # None /\ Work[2].item.content = None
    /\ FoundUrlOf(URL_A).user_id_hash = Work[2].user_id_hash
    /\ FoundUrlOf(URL_A).status = URLStatus_ERROR_TIMEOUT

\* C6 (FoundURL output set): while folding, every URL with a status or a user
\* has a user and a timestamp, so building the records raises no KeyError; and
\* the output holds exactly one FoundURL for every URL that was given a status
\* or a user and timestamp, which are the URLs some item observes, built from
\* what the accumulators hold for it, and nothing else.
C6_FoundUrlSet ==
    /\ (Folding \/ FoldDone) =>
          /\ found_keys \subseteq (DOMAIN url_users) \cap (DOMAIN url_timestamps)
          /\ found_keys = Observed
    /\ FoldDone =>
          /\ FoundUrlSet = Observed
          /\ Cardinality(found_urls) = Cardinality(Observed)
          /\ \A f \in found_urls :
                f = FoundURL(f.url, url_users[f.url], url_statuses[f.url],
                             url_timestamps[f.url])

C6_Witness ==
    /\ FoldDone
    /\ Cardinality(found_urls) = 3
    /\ \E f \in found_urls : f.url \notin {Work[k].item.url : k \in Folded}

\* C7 (default status): a URL that no item has as its own URL, observed only
\* as a link or as a link's root URL, is in the output with status NEW.
C7_DefaultStatus ==
    FoldDone =>
        \A url \in Observed :
            Owning(url) = {} =>
                /\ url \in FoundUrlSet
                /\ FoundUrlOf(url).status = URLStatus_NEW

C7_Witness ==
    /\ FoldDone
    /\ Owning(URL_BX) = {} /\ Owning(URL_B) = {}
    /\ {URL_BX, URL_B} \subseteq FoundUrlSet

\* C1 (idempotence): when record_urls_in_database returns in two consecutive
\* cycles that were handed the same batches under the same blacklist, the
\* second call computes the same FoundURL set, reports no new URL, and leaves
\* the URL database and the domain-link database as the first call left them.
C1_Idempotence ==
    \A i \in 1..(Len(completed) - 1) :
        (/\ completed[i + 1].cycle = completed[i].cycle + 1
         /\ completed[i + 1].batches = completed[i].batches
         /\ completed[i + 1].blacklist = completed[i].blacklist)
        => /\ completed[i + 1].found_urls = completed[i].found_urls
           /\ completed[i + 1].new_urls = {}
           /\ completed[i + 1].url_db = completed[i].url_db
           /\ completed[i + 1].domain_link_db = completed[i].domain_link_db

C1_Witness ==
    /\ Len(completed) = 2
    /\ completed[2].cycle = completed[1].cycle + 1
    /\ completed[2].batches = completed[1].batches
    /\ completed[2].blacklist = completed[1].blacklist
    /\ Cardinality(completed[1].found_urls) = 3
    /\ completed[1].domain_link_db # EmptyMap

QueuedUrls(i) == {f.url : f \in new_item_queue[i]}

\* C8 (new-URL push): the queue changes only by the one put of a cycle, which
\* follows the URL-database update and appends, as one element, exactly the
\* records of the cycle's FoundURL set whose URL the database did not hold
\* before the update, which is what update_found_urls returned; no URL is
\* pushed in two cycles, and every cycle that completed has pushed.
C8_NewUrlPush ==
    /\ [][IF pc = "put"
          THEN new_item_queue' =
                   Append(new_item_queue,
                          {f \in found_urls : f.url \notin known_before})
          ELSE new_item_queue' = new_item_queue]_vars
    /\ [](pc = "put" =>
            /\ new_urls = {f \in found_urls : f.url \notin known_before}
            /\ \A f \in found_urls : f.url \in DOMAIN url_db)
    /\ [](\A i, j \in 1..Len(new_item_queue) :
            i # j => QueuedUrls(i) \cap QueuedUrls(j) = {})
    /\ [](Len(completed) <= Len(new_item_queue) /\ Len(new_item_queue) <= cycles)

\* A second cycle finds three URLs, one of them known from the first, and the
\* two new ones are what it pushed.
C8_Witness ==
    /\ pc = "mark"
    /\ Len(new_item_queue) = 2
    /\ Cardinality(found_urls) = 3
    /\ Cardinality(new_item_queue[2]) = 2
    /\ new_item_queue[2] \subseteq found_urls

\* C9 (driver isolation and pacing): the driver never stops; a cycle, whether
\* it returns or raises, is followed by the sleep and by nothing else; a cycle
\* starts only where the loop calls run(), so one at a time; when a cycle
\* starts after an earlier one, the clock stands 10 past the earlier one's end;
\* and after every cycle the sleep and then the next cycle can be taken.
C9_DriverIsolation ==
    /\ [](pc # "stopped")
    /\ [][(pc # "sleep" /\ pc' \in {"fetch", "sleep", "stopped"}) => pc' = "sleep"]_vars
    /\ [][cycles' # cycles => (pc = "fetch" /\ cycles' = cycles + 1)]_vars
    /\ []((pc = "fetch" /\ cycle_end # None) => clock = cycle_end[1] + 10)
    /\ [](pc = "sleep" => ENABLED Sleep)
    /\ []((pc = "fetch" /\ cycles < MaxCycles) => ENABLED FetchBatches)

\* A second cycle is under way, ten seconds after a first one that raised
\* while the domain links were written.
C9_Witness ==
    /\ pc = "reconcile"
    /\ cycles = 2
    /\ completed = <<>>
    /\ url_db # EmptyMap
    /\ cycle_end = Some(0)
    /\ clock = 10

\* The names that keep a value in the URL, and the values a name keeps.
NamesIn(url) == {url[i][1] : i \in {j \in 1..Len(url) : url[j][2] # ""}}
ValuesIn(url, name) == {i \in 1..Len(url) : url[i][1] = name /\ url[i][2] # ""}

\* More than one distinct query parameter, or one parameter with more than
\* one value.
Ambiguous(url) ==
    \/ Cardinality(NamesIn(url)) > 1
    \/ \E name \in NamesIn(url) : Cardinality(ValuesIn(url, name)) > 1

\* C10 (curation validation): a request whose URL holds more than one distinct
\* query parameter, or one parameter with more than one value, never calls
\* store_in_page; it goes from the saved row to ValueError, by a step that
\* leaves every page as it is; and a page changes only by the store_in_page of
\* a request that passed the checks.
C10_CurationValidation ==
    /\ [](\A h \in Handlers :
            (handlers[h].curation # None /\ Ambiguous(handlers[h].curation[1].url))
            => /\ h \notin store_calls
               /\ handlers[h].pc \in {"saved", "error"}
               /\ handlers[h].pc = "error" => handlers[h].error = "ValueError")
    /\ [][\A h \in Handlers :
            (handlers'[h].pc = "error" /\ handlers[h].pc # "error")
            => index_pages' = index_pages]_vars
    /\ [][index_pages' # index_pages =>
            \E h \in Handlers :
                /\ handlers[h].pc = "read"
                /\ handlers'[h].pc = "ok"
                /\ ~Ambiguous(handlers[h].curation[1].url)]_vars

\* A request with two parameters and one with two values of one parameter
\* have both been rejected, and the pages are as they were.
C10_Witness ==
    /\ handlers[1].pc = "error"
    /\ handlers[1].curation[1].url = <<<<"q", "cat">>, <<"lang", "en">>>>
    /\ handlers[2].pc = "error"
    /\ handlers[2].curation[1].url = <<<<"q", "cat">>, <<"q", "Dog">>>>
    /\ Len(user_curations) = 2
    /\ index_pages = InitialPages

\* The documents of a page that belong to a term, and those that do not.
OfTerm(documents, term) == SelectSeq(documents, LAMBDA doc : doc.term = term)
Foreign(documents, term) == SelectSeq(documents, LAMBDA doc : doc.term # term)

\* Handler h replaces its page in this step.
Stores(h) == handlers[h].pc = "read" /\ handlers'[h].pc = "ok"

\* C11 (curation merge preserves foreign terms): when a request that curates
\* term t with n results replaces its page, the page it writes holds the
\* documents of other terms of the page it loaded, unchanged and in their
\* order, none of the loaded documents of term t beside the n curated ones,
\* and n + (number of foreign documents) documents in all; when no other
\* request has written the page since it was loaded, this is the page as it
\* was just before the write.
C11_MergePreservesForeign ==
    [][\A h \in Handlers :
          Stores(h) =>
            LET t == handlers[h].term
                n == Len(handlers[h].curation[1].results)
                loaded == handlers[h].existing_documents
                before == index_pages[handlers[h].page_index]
                after == index_pages'[handlers[h].page_index]
            IN  /\ Foreign(after, t) = Foreign(loaded, t)
                /\ OfTerm(after, t) = handlers[h].documents
                /\ Len(after) = n + Len(Foreign(loaded, t))
                /\ before = loaded =>
                      /\ Foreign(after, t) = Foreign(before, t)
                      /\ Len(after) = n + Len(Foreign(before, t))
                /\ \A p \in Pages \ {handlers[h].page_index} :
                      index_pages'[p] = index_pages[p]]_vars

\* The term "cat" has been curated with two results on the page it shares
\* with "dog": the two dog documents are kept behind them, the cat one is gone.
C11_Witness ==
    \E h \in Handlers :
        /\ handlers[h].pc = "ok"
        /\ handlers[h].term = <<"cat">>
        /\ Len(handlers[h].documents) = 2
        /\ handlers[h].existing_documents = InitialPages[0]
        /\ index_pages[0] =
              handlers[h].documents \o <<InitialPages[0][1], InitialPages[0][3]>>
        /\ Len(index_pages[0]) = 4

\* C12 (curated ordering): the document synthesized for the i-th result (from
\* 0) carries the result's title, url and extract, the score
\* MAX_CURATED_SCORE - i and the normalized query term, so the scores decrease
\* strictly in the submitted order; and the page a request writes begins with
\* its curated documents in that order, every kept document of another term
\* coming after them.
C12_CuratedOrdering ==
    /\ [](\A h \in Handlers :
            handlers[h].pc \in {"read", "ok"} =>
              LET results == handlers[h].curation[1].results
                  documents == handlers[h].documents
                  query == parse_qs(handlers[h].curation[1].url)[1][2][1]
              IN  /\ Len(documents) = Len(results)
                  /\ \A i \in 1..Len(documents) :
                        /\ documents[i].score = MAX_CURATED_SCORE - (i - 1)
                        /\ documents[i].term = tokenize(query)
                        /\ documents[i].term = handlers[h].term
                        /\ documents[i].title = results[i].title
                        /\ documents[i].url = results[i].url
                        /\ documents[i].extract = results[i].extract
                  /\ \A i, j \in 1..Len(documents) :
                        i < j => documents[i].score > documents[j].score)
    /\ [][\A h \in Handlers :
            Stores(h) =>
              LET documents == handlers[h].documents
                  after == index_pages'[handlers[h].page_index]
              IN  /\ Len(after) >= Len(documents)
                  /\ SubSeq(after, 1, Len(documents)) = documents
                  /\ \A i \in (Len(documents) + 1)..Len(after) :
                        after[i].term # handlers[h].term]_vars

\* Two results were submitted for "Dog": the page begins with their documents,
\* scored MAX_CURATED_SCORE and MAX_CURATED_SCORE - 1, before the cat document.
C12_Witness ==
    \E h \in Handlers :
        /\ handlers[h].pc = "ok"
        /\ handlers[h].curation[1].url = <<<<"q", "Dog">>>>
        /\ handlers[h].term = <<"dog">>
        /\ Len(handlers[h].documents) = 2
        /\ Len(index_pages[0]) = 3
        /\ index_pages[0][1].score = MAX_CURATED_SCORE
        /\ index_pages[0][2].score = MAX_CURATED_SCORE - 1
        /\ index_pages[0][1].title = handlers[h].curation[1].results[1].title
        /\ index_pages[0][3].term = <<"cat">>

\* The spellings of "user" and of "google", and the other tags.
UserTags == {<<"u", "s", "e", "r">>, <<"U", "s", "e", "r">>, <<"U", "S", "E", "R">>}
GoogleTags ==
    {<<"g", "o", "o", "g", "l", "e">>, <<"G", "o", "o", "g", "l", "e">>,
     <<"G", "o", "O", "g", "L", "e">>}
OtherTags == Sources \ (UserTags \cup GoogleTags)

\* C13 (state mapping): the state of every synthesized document is
\* user-approved for a validated result tagged "user" in any case,
\* google-approved for a validated one tagged "google" in any case,
\* organic-approved for any other validated result, from-user and from-google
\* for the unvalidated ones so tagged, and no state for any other unvalidated
\* result; it is always one of these six.
C13_StateMapping ==
    \A h \in Handlers :
        handlers[h].pc \in {"read", "ok"} =>
            \A i \in 1..Len(handlers[h].documents) :
                LET result == handlers[h].curation[1].results[i]
                    state == handlers[h].documents[i].state
                IN  /\ (result.validated /\ result.source \in UserTags)
                          => state = DocumentState_FROM_USER_APPROVED
                    /\ (result.validated /\ result.source \in GoogleTags)
                          => state = DocumentState_FROM_GOOGLE_APPROVED
                    /\ (result.validated /\ result.source \in OtherTags)
                          => state = DocumentState_ORGANIC_APPROVED
                    /\ (~result.validated /\ result.source \in UserTags)
                          => state = DocumentState_FROM_USER
                    /\ (~result.validated /\ result.source \in GoogleTags)
                          => state = DocumentState_FROM_GOOGLE
                    /\ (~result.validated /\ result.source \in OtherTags)
                          => state = DocumentState_None
                    /\ state \in {DocumentState_FROM_USER_APPROVED,
                                  DocumentState_FROM_GOOGLE_APPROVED,
                                  DocumentState_ORGANIC_APPROVED,
                                  DocumentState_FROM_USER,
                                  DocumentState_FROM_GOOGLE,
                                  DocumentState_None}

\* A validated result tagged "GoOgLe" and an unvalidated one tagged "Bing"
\* have been stored as google-approved and without a state.
C13_Witness ==
    /\ handlers[1].pc = "ok"
    /\ Len(handlers[1].documents) = 2
    /\ handlers[1].curation[1].results[1].validated
    /\ handlers[1].curation[1].results[1].source = <<"G", "o", "O", "g", "L", "e">>
    /\ ~handlers[1].curation[1].results[2].validated
    /\ handlers[1].curation[1].results[2].source = <<"B", "i", "n", "g">>
    /\ index_pages[0][1].state = DocumentState_FROM_GOOGLE_APPROVED
    /\ index_pages[0][2].state = DocumentState_None

\* The page a request leaves when it runs alone on a page: its curated
\* documents, then the page's documents of other terms.
Applied(h, page) == handlers[h].documents \o Foreign(page, handlers[h].term)

\* Two requests that both went through to the store of the same page.
BothStored(h1, h2) ==
    /\ h1 # h2
    /\ handlers[h1].pc = "ok" /\ handlers[h2].pc = "ok"
    /\ handlers[h1].page_index = handlers[h2].page_index

\* The page is what running the two requests one after the other, in one of
\* the two orders, leaves.
Serial(h1, h2) ==
    LET p == handlers[h1].page_index IN
    \/ index_pages[p] = Applied(h2, Applied(h1, InitialPages[p]))
    \/ index_pages[p] = Applied(h1, Applied(h2, InitialPages[p]))

\* C14 (per-page mutual exclusion): no request has loaded a page and not yet
\* replaced it while another request is in the same position on the same page;
\* and once two requests have both replaced the same page, the page is what
\* running them one after the other, in one of the two orders, leaves.
C14_PerPageMutualExclusion ==
    \A h1, h2 \in Handlers :
        /\ (h1 # h2 /\ handlers[h1].pc = "read" /\ handlers[h2].pc = "read")
              => handlers[h1].page_index # handlers[h2].page_index
        /\ BothStored(h1, h2) => Serial(h1, h2)

\* "cat" and "dog" share page 0; both requests loaded it before either wrote,
\* and the curated documents of the first writer are not on the page.
C14_Witness ==
    /\ BothStored(1, 2)
    /\ handlers[1].term = <<"cat">> /\ handlers[2].term = <<"dog">>
    /\ Len(handlers[1].documents) = 1 /\ Len(handlers[2].documents) = 1
    /\ handlers[1].existing_documents = InitialPages[0]
    /\ handlers[2].existing_documents = InitialPages[0]
    /\ ~Serial(1, 2)
    /\ OfTerm(index_pages[0], <<"cat">>) # handlers[1].documents
    /\ OfTerm(index_pages[0], <<"dog">>) = handlers[2].documents

\* No parameter keeps a value, or the URL is ambiguous.
Malformed(url) == NamesIn(url) = {} \/ Ambiguous(url)

\* The audit log holds the row of handler h's request.
Archived(h) ==
    \E i \in 1..Len(user_curations) :
        /\ user_curations[i].user = CurationUsers[h]
        /\ user_curations[i].url = handlers[h].curation[1].url
        /\ user_curations[i].results = handlers[h].curation[1].results
        /\ user_curations[i].curation = handlers[h].curation[1].curation
        /\ user_curations[i].curation_type = handlers[h].curation[1].curation_type

\* C15 as stated (malformed query rejected before any mutation): a rejected
\* request has left nothing in the audit log, and no page changed.
C15_AsStated ==
    \A h \in Handlers :
        (handlers[h].pc = "error" /\ Malformed(handlers[h].curation[1].url))
        => /\ h \notin store_calls
           /\ \A i \in 1..Len(user_curations) :
                 user_curations[i].user # CurationUsers[h]

\* What does hold of a malformed request: it fails (StopIteration for no
\* parameter, ValueError otherwise) without ever replacing a page, by a step
\* that changes neither the pages nor the audit log; its row is in the audit
\* log, saved before the URL was looked at.
C15_MalformedRejected ==
    /\ [](\A h \in Handlers :
            (handlers[h].curation # None /\ Malformed(handlers[h].curation[1].url))
            => /\ h \notin store_calls
               /\ handlers[h].pc \in {"saved", "error"}
               /\ Archived(h)
               /\ handlers[h].pc = "error" =>
                     handlers[h].error =
                         IF NamesIn(handlers[h].curation[1].url) = {}
                         THEN "StopIteration" ELSE "ValueError")
    /\ [](\A h \in Handlers :
            handlers[h].pc = "error" => Malformed(handlers[h].curation[1].url))
    /\ [][\A h \in Handlers :
            (handlers'[h].pc = "error" /\ handlers[h].pc # "error")
            => /\ index_pages' = index_pages
               /\ user_curations' = user_curations]_vars

\* A request without any parameter and one with two parameters have both
\* failed; the pages are as they were and the log holds both rows.
C15_Witness ==
    /\ handlers[1].pc = "error"
    /\ handlers[1].curation[1].url = <<>>
    /\ handlers[1].error = "StopIteration"
    /\ handlers[2].pc = "error"
    /\ handlers[2].curation[1].url = <<<<"q", "Dog">>, <<"lang", "en">>>>
    /\ handlers[2].error = "ValueError"
    /\ Archived(1) /\ Archived(2)
    /\ store_calls = {}
    /\ index_pages = InitialPages

\* Batch i of the store holds an item that get_datetime_from_timestamp
\* rejects: every reconciler call that includes it raises.
Bad(i) ==
    \E k \in 1..Len(batch_store[i].items) :
        batch_store[i].items[k].timestamp > DATETIME_MAX

\* Batch i was in a reconciler call that returned.
Reconciled(i) ==
    \E c \in 1..Len(completed) :
        \E k \in 1..Len(completed[c].batches) : completed[c].batches[k] = i

\* The driver has been through all its cycles.
CyclesOver == cycles = MaxCycles /\ pc = "sleep"

\* C16 (bad batch does not halt ingestion): with one batch that raises in
\* every reconciler call and no other failure, once the driver has run its
\* cycles, each taking every ready batch, every other batch has been moved to
\* the reconciled status; and a batch has that status only after a reconciler
\* call that included it returned.
C16_BadBatchIsolated ==
    /\ \A i \in 1..Len(batch_store) :
          batch_store[i].status = BatchStatus_URLS_UPDATED => Reconciled(i)
    /\ (CyclesOver /\ Cardinality({i \in 1..Len(batch_store) : Bad(i)}) = 1) =>
          \A i \in 1..Len(batch_store) :
              ~Bad(i) => batch_store[i].status = BatchStatus_URLS_UPDATED

\* What does hold: a batch is reconciled only by a call that returned, no
\* call that returned held a bad batch, a bad batch stays ready for ever, and
\* so does every batch fetched along with it.
C16_OnlyAfterReturn ==
    /\ \A i \in 1..Len(batch_store) :
          batch_store[i].status = BatchStatus_URLS_UPDATED
              => Reconciled(i) /\ ~Bad(i)
    /\ (\E i \in 1..Len(batch_store) : Bad(i)) =>
          \A i \in 1..Len(batch_store) : batch_store[i].status = BatchStatus_LOCAL

\* Two batches, the second one bad: after all the cycles the first one is
\* still waiting, nothing is in the URL database and nothing was queued.
C16_Witness ==
    /\ CyclesOver
    /\ Len(batch_store) = 2
    /\ ~Bad(1) /\ Bad(2)
    /\ batch_store[1].items # <<>>
    /\ batch_store[1].status = BatchStatus_LOCAL
    /\ url_db = EmptyMap
    /\ new_item_queue = <<>>

\* What one uninterrupted call on all the batches of the store computes.
RECURSIVE FoldAll(_, _, _)
FoldAll(work, acc, blacklist) ==
    IF work = <<>> THEN acc
    ELSE FoldAll(Tail(work),
                 fold_item(work[1].user_id_hash, work[1].item, acc, blacklist),
                 blacklist)

Uninterrupted ==
    FoldAll(FlatItems(batch_store, [i \in 1..Len(batch_store) |-> i]),
            [url_users |-> EmptyMap, url_timestamps |-> EmptyMap,
             url_statuses |-> EmptyMap, domain_links |-> <<>>],
            blacklist_source)

UninterruptedUrlDb ==
    [u \in DOMAIN Uninterrupted.url_users |->
        [user_id_hash |-> Uninterrupted.url_users[u],
         status |-> status_of(Uninterrupted.url_statuses, u),
         timestamp |-> Uninterrupted.url_timestamps[u]]]

DbEdges(db) == UNION {{<<source, t>> : t \in db[source]} : source \in DOMAIN db}

\* Every URL some queue element holds.
Pushed == UNION {QueuedUrls(i) : i \in 1..Len(new_item_queue)}

\* A cycle was cut short by the end of the process, and a later cycle on the
\* same batches has run to its end.
Rerun ==
    /\ cycles > Len(completed)
    /\ pc = "sleep"
    /\ \A i \in 1..Len(batch_store) :
          batch_store[i].status = BatchStatus_URLS_UPDATED

\* C17 (interrupted cycle recoverable by re-run): after a cycle that the end
\* of the process cut short and a re-run on the same batches, the URL database
\* and the domain-link database hold what one uninterrupted run produces, and
\* every URL the URL database holds, each of which it once reported as newly
\* discovered, is in some element of the work queue.
C17_RecoverableByRerun ==
    Rerun =>
        /\ url_db = UninterruptedUrlDb
        /\ DbEdges(domain_link_db) = Edges(Uninterrupted.domain_links)
        /\ DOMAIN url_db \subseteq Pushed

\* What does hold: the two databases are recovered.
C17_DatabasesRecovered ==
    Rerun =>
        /\ url_db = UninterruptedUrlDb
        /\ DbEdges(domain_link_db) = Edges(Uninterrupted.domain_links)

\* The process ended between update_found_urls and the put; the re-run found
\* every URL known and pushed an empty set: three URLs are in the database,
\* none was ever queued.
C17_Witness ==
    /\ Rerun
    /\ cycles = 2 /\ Len(completed) = 1
    /\ Cardinality(DOMAIN url_db) = 3
    /\ new_item_queue = <<{}>>
    /\ DbEdges(domain_link_db) # {}

\* This step folds the item that stands next in processing order.
Folds == pc = "fold" /\ item_no' = item_no + 1

\* The links of the k-th item that parse and are not blacklisted.
AcceptedLinks(k) == {l \in LinksOf(k) : Parses(l) /\ ~Blacklisted(l)}

\* C18 (per-item domain-resolution failure): the step that folds an item with
\* content whose own URL resolves to no domain records the item's user,
\* timestamp and status CRAWLED for that URL and changes nothing else, so no
\* link of the item is registered and no edge is added, and the fold goes on;
\* and when the fold is done every item after it has its own URL in the
\* output and, when it expands, its accepted links with their edges.
C18_DomainResolutionFailure ==
    /\ [][Folds =>
            LET w == Work[item_no + 1] IN
            (w.item.content # None /\ w.item.url[1] = "") =>
                /\ url_users' = Put(url_users, w.item.url, w.user_id_hash)
                /\ url_timestamps' =
                       Put(url_timestamps, w.item.url, w.item.timestamp * 1000)
                /\ url_statuses' = Put(url_statuses, w.item.url, URLStatus_CRAWLED)
                /\ domain_links' = domain_links
                /\ pc' = "fold"]_vars
    /\ [](FoldDone =>
            /\ item_no = Len(Work)
            /\ \A k \in Folded :
                  (Work[k].item.content # None /\ Work[k].item.url[1] = "") =>
                      /\ Work[k].item.url \in FoundUrlSet
                      /\ \A j \in Folded :
                            j > k =>
                               /\ Work[j].item.url \in FoundUrlSet
                               /\ \A l \in AcceptedLinks(j) :
                                     Expands(j) =>
                                        /\ {l, root_url(urlparse(l))}
                                               \subseteq FoundUrlSet
                                        /\ <<get_domain(Work[j].item.url),
                                             urlparse(l).netloc>>
                                               \in Edges(domain_links))

\* A page without a domain that links to http://b/x comes first and a page
\* of http://a/ with the same link second: only the second one's link is
\* registered, and the first page's URL is in the output as CRAWLED.
C18_Witness ==
    /\ FoldDone
    /\ item_no = 2
    /\ Work[1].item.url = URL_N
    /\ Work[1].item.content # None
    /\ URL_BX \in LinksOf(1)
    /\ Work[2].item.url = URL_A
    /\ URL_BX \in LinksOf(2)
    /\ ~Blacklisted(URL_BX)
    /\ FoundUrlOf(URL_N).status = URLStatus_CRAWLED
    /\ FoundUrlOf(URL_BX).user_id_hash = Work[2].user_id_hash
    /\ Edges(domain_links) = {<<"a", "b">>}

\* C19 (link processing never assigns a status): a fold step writes the
\* status of the item's own URL and of no other URL, whatever links the item
\* has; so in the output a URL that some item had as its own URL and that a
\* later item discovers as a link keeps the status of its last own item,
\* with the user and the timestamp of the later discovery.
C19_LinksAssignNoStatus ==
    /\ [][Folds =>
            LET w == Work[item_no + 1] IN
            /\ \A url \in AllUrls \ {w.item.url} :
                  /\ url \in DOMAIN url_statuses' <=> url \in DOMAIN url_statuses
                  /\ url \in DOMAIN url_statuses =>
                        url_statuses'[url] = url_statuses[url]
            /\ w.item.url \in DOMAIN url_statuses'
            /\ url_statuses'[w.item.url] =
                  IF w.item.content = None
                  THEN URLStatus_ERROR_TIMEOUT ELSE URLStatus_CRAWLED]_vars
    /\ [](FoldDone =>
            \A url \in Observed :
                (Owning(url) # {} /\ Max(Touching(url)) > Max(Owning(url))) =>
                    /\ FoundUrlOf(url).status \in
                          {URLStatus_CRAWLED, URLStatus_ERROR_TIMEOUT}
                    /\ FoundUrlOf(url).status =
                          (IF Work[Max(Owning(url))].item.content = None
                           THEN URLStatus_ERROR_TIMEOUT ELSE URLStatus_CRAWLED)
                    /\ FoundUrlOf(url).user_id_hash =
                          Work[Max(Touching(url))].user_id_hash
                    /\ FoundUrlOf(url).timestamp =
                          Work[Max(Touching(url))].item.timestamp * 1000)

\* http://a/ failed in the first batch and is found as a link of http://b/
\* in the second, at another time: it is still ERROR_TIMEOUT, now with the
\* second batch's user and timestamp.
C19_Witness ==
    /\ FoldDone
    /\ item_no = 2
    /\ Work[1].item.url = URL_A /\ Work[1].item.content = None
    /\ Work[2].item.url = URL_B /\ URL_A \in LinkUrlsOf(2)
    /\ Work[1].user_id_hash # Work[2].user_id_hash
    /\ Work[1].item.timestamp # Work[2].item.timestamp
    /\ FoundUrlOf(URL_A).status = URLStatus_ERROR_TIMEOUT
    /\ FoundUrlOf(URL_A).user_id_hash = Work[2].user_id_hash
    /\ FoundUrlOf(URL_A).timestamp = Work[2].item.timestamp * 1000

\* The own URL of the k-th item lies on a blacklisted domain.
OnBlacklist(k) == Work[k].item.url[2] \in blacklist_domains

\* C20 (the blacklist gates links only): the step that folds an item whose
\* own URL is on a blacklisted domain records its user, timestamp and status
\* like any other item's; once the fold is done the URL has its FoundURL, and
\* every accepted link of such a page with content is in the output with its
\* root URL and an edge from the blacklisted domain; and no blacklisted
\* domain is ever the target of an edge.
C20_BlacklistGatesLinksOnly ==
    /\ [][Folds =>
            LET w == Work[item_no + 1] IN
            w.item.url[2] \in blacklist_domains =>
                /\ w.item.url \in DOMAIN url_users'
                /\ url_users'[w.item.url] = w.user_id_hash
                /\ url_timestamps'[w.item.url] = w.item.timestamp * 1000
                /\ url_statuses'[w.item.url] =
                      IF w.item.content = None
                      THEN URLStatus_ERROR_TIMEOUT ELSE URLStatus_CRAWLED]_vars
    /\ [](FoldDone =>
            \A k \in Folded :
                OnBlacklist(k) =>
                    /\ Work[k].item.url \in FoundUrlSet
                    /\ Work[k].item.content # None =>
                          \A l \in AcceptedLinks(k) :
                              /\ {l, root_url(urlparse(l))} \subseteq FoundUrlSet
                              /\ <<Work[k].item.url[2], urlparse(l).netloc>>
                                     \in Edges(domain_links))
    /\ []((Folding \/ FoldDone) =>
            \A d \in blacklist_domains : d \notin Targets(domain_links))

\* "b" is blacklisted; the page http://b/ was crawled and links to http://a/:
\* the page has its record, the link is registered, and the edge b -> a is
\* the only one.
C20_Witness ==
    /\ FoldDone
    /\ blacklist_domains = {"b"}
    /\ \E k \in Folded :
          /\ Work[k].item.url = URL_B
          /\ Work[k].item.content # None
          /\ URL_A \in AcceptedLinks(k)
          /\ URL_BX \in LinksOf(k)
    /\ FoundUrlOf(URL_B).status = URLStatus_CRAWLED
    /\ URL_A \in FoundUrlSet
    /\ URL_BX \notin FoundUrlSet
    /\ Edges(domain_links) = {<<"b", "a">>}

====
